---- MODULE Spec2Model ----
(***************************************************************************)
(* Model of the playlist import engine of PlexPlaylistApp:                 *)
(*   playlist_io.import_from_file   the per-playlist / per-item loop       *)
(*   playlist_io.find_media_in_plex the fallback chain of matching         *)
(*   PlexPlaylistApp.import_playlists / run_import  the worker's caller    *)
(* The catalog (plexapi server) is an external collaborator: each of its   *)
(* calls returns a value or raises, chosen nondeterministically.           *)
(***************************************************************************)
EXTENDS Naturals, Integers, Sequences, FiniteSets, TLC

(* ------------------------------ bounds -------------------------------- *)
MaxPlaylists == 2     \* playlists in one document
MaxDocItems == 3         \* items in the selected playlists of one document
NumEntries == 2       \* entries of the catalog
MaxHits == 2          \* entries returned by one search
MaxTitleLen == 2      \* characters of an exported playlist's title
MaxClicks == 3        \* button presses of the user in one session

(* ------------------------------ values -------------------------------- *)
Names == {"A", "B"}                 \* original playlist names / CSV base names
None == 0                           \* Python None / absent / falsy field
Entries == 1..NumEntries            \* catalog entries (truthy objects)

ImdbId == <<"t", "1">>              \* the external id an item may carry

\* the composite GUID of a catalog entry; getattr(result, 'guid', '')
Guid(e) ==
    IF e % 3 = 1 THEN <<"i", ":", "t", "1">>
    ELSE IF e % 3 = 2 THEN <<"i", ":", "t", "2">>
    ELSE <<>>

\* Python's  a in b  on strings
IsSubstring(a, b) ==
    \E i \in 0..(Len(b) - Len(a)) : SubSeq(b, i + 1, i + Len(a)) = a

SeqsUpTo(S, n) == UNION {[1..k -> S] : k \in 0..n}

\* a serialized item: plex_rating_key, imdb_id, year (None = absent / falsy)
Items == [key : {None, 1}, imdb : {<<>>, ImdbId}, year : {None, 1}]

\* the items of the documents imported by the loop: one as the exporter
\* writes it, one that carries a title only
DocItems == {[key |-> 1, imdb |-> ImdbId, year |-> 1],
             [key |-> None, imdb |-> <<>>, year |-> None]}

\* the result list of a search: distinct entries, in the catalog's order
HitLists == {h \in SeqsUpTo(Entries, MaxHits) :
                \A i, j \in DOMAIN h : i # j => h[i] # h[j]}

\* what the catalog answers to the calls of one matching attempt
SearchResps == [raise : {TRUE}, hits : {<<>>}]
               \cup [raise : {FALSE}, hits : HitLists]
FetchResps == [raise : {TRUE}, entry : {None}]
              \cup [raise : {FALSE}, entry : Entries]
Resps == [fetch : FetchResps, section : BOOLEAN,
          s_imdb : SearchResps, s_ty : SearchResps, s_t : SearchResps]

\* section |-> TRUE means  server.library.section('Movies')  succeeded

(* ------------------------ find_media_in_plex --------------------------- *)
Ret(media, calls) == [raised |-> FALSE, media |-> media, calls |-> calls]
Raised(calls) == [raised |-> TRUE, media |-> None, calls |-> calls]

\* first result whose guid contains the external id (lines 190-193)
RECURSIVE FirstByGuid(_, _)
FirstByGuid(hits, imdb_id) ==
    IF hits = <<>> THEN None
    ELSE IF IsSubstring(imdb_id, Guid(Head(hits))) THEN Head(hits)
    ELSE FirstByGuid(Tail(hits), imdb_id)

\* lines 199-201: fallback to title only
TitleOnly(item, resp, calls) ==
    LET c == Append(calls, "search_title") IN
    IF resp.s_t.raise THEN Raised(c)
    ELSE Ret(IF resp.s_t.hits # <<>> THEN Head(resp.s_t.hits) ELSE None, c)

\* the title-and-year strategy left out
TitleYearSkipped(item, resp, calls) == TitleOnly(item, resp, calls)

\* lines 194-198: title and year
TitleYear(item, resp, calls) ==
    IF item.year # None
    THEN LET c == Append(calls, "search_title_year") IN
         IF resp.s_ty.raise THEN Raised(c)
         ELSE IF resp.s_ty.hits # <<>> THEN Ret(Head(resp.s_ty.hits), c)
         ELSE TitleOnly(item, resp, c)
    ELSE TitleOnly(item, resp, calls)

\* the external id ignored: the first hit of the search is taken
ByImdbFirstHit(item, resp, calls) ==
    IF item.imdb # <<>>
    THEN LET c == Append(calls, IF item.year # None THEN "search_title_year"
                                ELSE "search_title")
         IN IF resp.s_imdb.raise THEN Raised(c)
            ELSE IF resp.s_imdb.hits # <<>>
                 THEN Ret(Head(resp.s_imdb.hits), c)
                 ELSE TitleYear(item, resp, c)
    ELSE TitleYear(item, resp, calls)

\* lines 181-193: external id
ByImdb(item, resp, calls) ==
    IF item.imdb # <<>>
    THEN LET c == Append(calls, IF item.year # None THEN "search_title_year"
                                ELSE "search_title")
         IN IF resp.s_imdb.raise THEN Raised(c)
            ELSE LET m == FirstByGuid(resp.s_imdb.hits, item.imdb) IN
                 IF m # None THEN Ret(m, c) ELSE TitleYear(item, resp, c)
    ELSE TitleYear(item, resp, calls)

\* Section with the failure swallowed and the search still attempted
SectionSwallowed(item, resp, calls) ==
    ByImdb(item, resp, Append(calls, "section"))

\* lines 176-180: the Movies section
Section(item, resp, calls) ==
    LET c == Append(calls, "section") IN
    IF ~resp.section THEN Ret(None, c) ELSE ByImdb(item, resp, c)

\* find_media_in_plex with the Movies section obtained before the fetch
FindMediaSectionFirst(item, resp) ==
    IF ~resp.section THEN Ret(None, <<"section">>)
    ELSE IF item.key # None /\ ~resp.fetch.raise
    THEN Ret(resp.fetch.entry, <<"section", "fetchItem">>)
    ELSE ByImdb(item, resp, <<"section">>)

\* find_media_in_plex giving up when the fetch fails
FindMediaNoFallThrough(item, resp) ==
    IF item.key # None
    THEN IF ~resp.fetch.raise
         THEN Ret(resp.fetch.entry, <<"fetchItem">>)
         ELSE Ret(None, <<"fetchItem">>)
    ELSE Section(item, resp, <<>>)

FindMedia(item, resp) ==
    IF item.key # None
    THEN IF ~resp.fetch.raise
         THEN Ret(resp.fetch.entry, <<"fetchItem">>)
         ELSE Section(item, resp, <<"fetchItem">>)
    ELSE Section(item, resp, <<>>)

\* every outcome the catalog can produce for an item, as <<item, outcome>>
Outcomes == {<<it, FindMedia(it, r)>> : it \in Items, r \in Resps}

(* ------------------------------- state -------------------------------- *)
VARIABLES
    pc,               \* position of the worker / of the UI around it
    kind,             \* "json" or "csv": file_path.lower().endswith(".json")
    rename_map,       \* original name -> target name
    plNo,             \* ordinal of the playlist the for-loop is at (1-based)
    original,         \* pl["name"] / CSV base name
    new_name,         \* rename_map[original]
    items,            \* items of the current playlist
    quota,            \* items the playlists not yet reached may still hold
    idx,              \* items of the current playlist processed so far
    matched,          \* catalog entries matched for the current playlist
    results,          \* outcome lines
    missing_movies,   \* the unmatched-items collector
    cancel_event,     \* "none" (not supplied), "clear" or "set"
    progress_callback,\* TRUE when a callback was supplied
    missingFile,      \* "Missing Movies.json": [exists, content]
    ret,              \* what import_from_file returned (the joined lines)
    extra_msg,        \* run_import appended the missing-movies warning
    \* history of the run, kept for stating properties
    progress,         \* progress_callback invocations: [pl, i, n]
    nFind,            \* find_media_in_plex calls per playlist ordinal
    touched,          \* playlist ordinals for which a catalog call was made
    createCount,      \* createPlaylist calls per playlist ordinal
    lastCreate,       \* the createPlaylist request of the current playlist
    found,            \* find results of the current playlist, item by item
    missing_src,      \* for each collector entry, its [pl, idx]
    skipped,          \* playlist ordinals skipped by the rename map
    fm_resp,          \* SpecFind: the catalog's answers, fixed in advance
    fm_out,           \* SpecFind: what find_media_in_plex returned
    playlists,        \* SpecFile: the playlist objects given to export_to_json
    file_path,        \* SpecFile: the path exported to and previewed
    file,             \* SpecFile: the content of the file at file_path
    names,            \* SpecFile: what preview_import returned
    btn,              \* SpecUi: the buttons' state, TRUE = NORMAL
    grab,             \* SpecUi: the progress dialog holds the modal grab
    disabled,         \* SpecUi: the main window's -disabled attribute
    after_q,          \* SpecUi: callbacks queued with self.after(0, ...)
    workers,          \* SpecUi: run_import threads: [importing, returned]
    refreshing,       \* SpecUi: refresh threads in flight: [export, modify]
    modifying,        \* SpecUi: the UI thread is inside modify_playlist
    inflight,         \* SpecUi: import_from_file invocations in flight
    clicks,           \* SpecUi: button presses the user has left
    threads,          \* SpecUi: self._threads, the threads on_close joins
    shutting_down,    \* SpecUi: self._shutting_down
    destroyed         \* SpecUi: on_close has destroyed the window

vars == <<pc, kind, rename_map, plNo, original, new_name, items,
          quota,
          idx, matched, results, missing_movies, cancel_event,
          progress_callback, missingFile, ret, extra_msg, progress, nFind,
          touched, createCount, lastCreate, found, missing_src,
          skipped, fm_resp, fm_out, playlists, file_path, file, names,
          btn, grab, disabled, after_q, workers, refreshing, modifying,
          inflight, clicks, threads, shutting_down, destroyed>>

locals == <<original, new_name, items, idx, matched, found>>
catalogHist == <<nFind, touched, createCount, lastCreate>>
fileVars == <<playlists, file_path, file, names>>
\* what the import loop never touches
closeVars == <<threads, shutting_down, destroyed>>
uiVars == <<btn, grab, disabled, after_q, workers, refreshing, modifying,
            inflight, clicks, closeVars>>
fm == <<fm_resp, fm_out, fileVars, uiVars>>
callArgs == <<kind, rename_map, progress_callback>>

NoFile == [exists |-> FALSE, content |-> <<>>]
\* a side file left by an earlier run that had one miss
StaleFile == [exists |-> TRUE,
              content |-> <<[key |-> None, imdb |-> <<>>, year |-> None]>>]

NoOut == Ret(None, <<>>)
NoCreate == [pl |-> 0, name |-> "", items |-> <<>>, ok |-> FALSE]
NoResp == [fetch |-> [raise |-> TRUE, entry |-> None], section |-> FALSE,
           s_imdb |-> [raise |-> TRUE, hits |-> <<>>],
           s_ty |-> [raise |-> TRUE, hits |-> <<>>],
           s_t |-> [raise |-> TRUE, hits |-> <<>>]]

(* --------------------- export and preview: values ---------------------- *)
\* characters of a title: a plain one and the two that JSON escapes
Chars == {"a", "\"", "\\"}
Titles == SeqsUpTo(Chars, MaxTitleLen)

\* the playlist objects export_to_json is given: pl.title, pl.summary,
\* pl.items()
PlaylistObjs == [title : Titles, summary : {None}, items : {<<>>}]

\* json.dump: a string as it stands in the document
RECURSIVE JsonEscape(_)
JsonEscape(s) ==
    IF s = <<>> THEN <<>>
    ELSE (IF Head(s) \in {"\"", "\\"} THEN <<"\\", Head(s)>>
          ELSE <<Head(s)>>) \o JsonEscape(Tail(s))

\* json.load: the string a document's literal stands for
RECURSIVE JsonUnescape(_)
JsonUnescape(e) ==
    IF e = <<>> THEN <<>>
    ELSE IF Head(e) = "\\" /\ Len(e) >= 2
    THEN <<e[2]>> \o JsonUnescape(Tail(Tail(e)))
    ELSE <<Head(e)>> \o JsonUnescape(Tail(e))

\* file paths, character by character
DotJson == <<".", "j", "s", "o", "n">>
DotCsv == <<".", "c", "s", "v">>
Paths == {<<"A">> \o DotJson,
          <<"A", ".", "J", "S", "O", "N">>,
          <<"A">> \o DotCsv,
          <<"A", ".", "t", "x", "t">>,
          <<"A">>}

\* str.lower
Lower(p) ==
    [i \in DOMAIN p |->
        CASE p[i] = "A" -> "a" [] p[i] = "J" -> "j" [] p[i] = "S" -> "s"
          [] p[i] = "O" -> "o" [] p[i] = "N" -> "n" [] OTHER -> p[i]]

\* str.endswith
EndsWith(p, suffix) ==
    /\ Len(p) >= Len(suffix)
    /\ SubSeq(p, Len(p) - Len(suffix) + 1, Len(p)) = suffix

\* os.path.splitext(os.path.basename(p))[0]
Splitext0(p) ==
    LET dots == {i \in DOMAIN p : p[i] = "." /\ i > 1} IN
    IF dots = {} THEN p
    ELSE SubSeq(p, 1, (CHOOSE i \in dots : \A j \in dots : j <= i) - 1)

\* a file's content: text that json.load rejects, or a document
Garbage == [valid |-> FALSE, has_playlists |-> FALSE, playlists |-> <<>>]
\* the document {}
EmptyDoc == [valid |-> TRUE, has_playlists |-> FALSE, playlists |-> <<>>]

\* the outcome of preview_import
PvRet(ns) == [raised |-> FALSE, names |-> ns]
PvRaised == [raised |-> TRUE, names |-> <<>>]

\* nothing exported or previewed
NoFileWork ==
    /\ playlists = <<>>
    /\ file_path = <<"A">> \o DotJson
    /\ file = Garbage
    /\ names = PvRet(<<>>)

\* the buttons as _on_connect_success leaves them (lines 142-148)
AllNormal == [export_refresh |-> TRUE, modify_refresh |-> TRUE,
              export_selected |-> TRUE, import_selected |-> TRUE,
              modify_selected |-> TRUE]

\* the window connected and at rest
NoUiWork ==
    /\ btn = AllNormal
    /\ grab = FALSE
    /\ disabled = FALSE
    /\ after_q = <<>>
    /\ workers = [importing |-> 0, returned |-> 0]
    /\ refreshing = [export |-> 0, modify |-> 0]
    /\ modifying = FALSE
    /\ inflight = 0
    /\ clicks = 0
    /\ threads = {}
    /\ shutting_down = FALSE
    /\ destroyed = FALSE

\* the map the UI builds when playlist "A" is selected, to be imported as
\* "X", and playlist "B" is not (lines 312-351)
RenameMaps == {[n \in {"A"} |-> "X"]}

Line(p, name, k, a, b) == [pl |-> p, name |-> name, kind |-> k, a |-> a, b |-> b]

\* the state before the user starts an import
Init ==
    /\ pc = "idle"
    /\ kind = "json"
    /\ rename_map = <<>>
    /\ plNo = 0
    /\ original = ""
    /\ new_name = ""
    /\ items = <<>>
    /\ quota = MaxDocItems
    /\ idx = 0
    /\ matched = <<>>
    /\ results = <<>>
    /\ missing_movies = <<>>
    /\ cancel_event = "none"
    /\ progress_callback = FALSE
    /\ missingFile \in {NoFile, StaleFile}
    /\ ret = <<>>
    /\ extra_msg = FALSE
    /\ progress = <<>>
    /\ nFind = [p \in 1..MaxPlaylists |-> 0]
    /\ touched = {}
    /\ createCount = [p \in 1..MaxPlaylists |-> 0]
    /\ lastCreate = NoCreate
    /\ found = <<>>
    /\ missing_src = <<>>
    /\ skipped = {}
    /\ fm_resp = NoResp
    /\ fm_out = NoOut
    /\ NoFileWork
    /\ NoUiWork

(* ------------------- PlexPlaylistApp.import_playlists ------------------ *)
\* The UI builds the rename map, creates the cancel event and the progress
\* dialog, and starts the worker thread (lines 352-408).
ImportPlaylists ==
    /\ pc = "idle"
    /\ \E k \in {"json", "csv"}, rm \in RenameMaps :
          /\ kind' = k
          /\ rename_map' = rm
    /\ cancel_event' = "clear"
    /\ progress_callback' = TRUE
    /\ pc' = "started"
    /\ UNCHANGED <<quota, plNo, locals, results, missing_movies,
                   missingFile, ret, extra_msg, progress, catalogHist,
                   missing_src, skipped, fm>>

\* the Cancel Import button: command=cancel_event.set (line 369)
SetCancel ==
    /\ cancel_event = "clear"
    /\ pc \in {"started", "for_pl", "check", "match", "create", "save"}
    /\ cancel_event' = "set"
    /\ UNCHANGED <<pc, callArgs, quota, plNo, locals, results, missing_movies,
                   missingFile, ret, extra_msg, progress, catalogHist,
                   missing_src, skipped, fm>>

(* ---------------------- playlist_io.import_from_file ------------------- *)
\* lines 92-96: the JSON document is parsed
OpenJson ==
    /\ pc = "started"
    /\ kind = "json"
    /\ plNo' = 0
    /\ results' = <<>>
    /\ missing_movies' = <<>>
    /\ pc' = "for_pl"
    /\ UNCHANGED <<kind, rename_map, progress_callback, quota, locals,
                   cancel_event,
                   missingFile, ret, extra_msg, progress, catalogHist,
                   missing_src, skipped, fm>>

\* the unselected playlist imported under its own name
SkipPlaylistFallThrough ==
    /\ pc = "for_pl"
    /\ plNo < MaxPlaylists
    /\ \E name \in Names, its \in SeqsUpTo(DocItems, quota) :
          /\ name \notin DOMAIN rename_map
          /\ original' = name
          /\ new_name' = name
          /\ items' = its
          /\ quota' = quota - Len(its)
    /\ plNo' = plNo + 1
    /\ skipped' = skipped \cup {plNo + 1}
    /\ matched' = <<>>
    /\ idx' = 0
    /\ found' = <<>>
    /\ lastCreate' = NoCreate
    /\ pc' = "check"
    /\ UNCHANGED <<callArgs, results, missing_movies, cancel_event,
                   missingFile, ret, extra_msg, progress, nFind, touched,
                   createCount, missing_src, fm>>

\* lines 97-100: a playlist whose name is not a key of the map is skipped
SkipPlaylist ==
    /\ pc = "for_pl"
    /\ plNo < MaxPlaylists
    /\ \E name \in Names :
          /\ name \notin DOMAIN rename_map
          /\ original' = name
    /\ plNo' = plNo + 1
    /\ skipped' = skipped \cup {plNo + 1}
    /\ UNCHANGED <<pc, callArgs, quota, new_name, items, idx, matched, found,
                   results, missing_movies, cancel_event, missingFile, ret,
                   extra_msg, progress, catalogHist, missing_src, fm>>

\* the matched list carried over from the playlist before
BeginPlaylistSharedMatched ==
    /\ pc = "for_pl"
    /\ plNo < MaxPlaylists
    /\ \E name \in Names, its \in SeqsUpTo(DocItems, quota) :
          /\ name \in DOMAIN rename_map
          /\ original' = name
          /\ new_name' = rename_map[name]
          /\ items' = its
          /\ quota' = quota - Len(its)
    /\ plNo' = plNo + 1
    /\ idx' = 0
    /\ found' = <<>>
    /\ lastCreate' = NoCreate
    /\ pc' = "check"
    /\ UNCHANGED <<callArgs, matched, results, missing_movies, cancel_event,
                   missingFile, ret, extra_msg, progress, nFind, touched,
                   createCount, missing_src, skipped, fm>>

\* lines 97-104: a selected playlist; its locals are set up
BeginPlaylist ==
    /\ pc = "for_pl"
    /\ plNo < MaxPlaylists
    /\ \E name \in Names, its \in SeqsUpTo(DocItems, quota) :
          /\ name \in DOMAIN rename_map
          /\ original' = name
          /\ new_name' = rename_map[name]
          /\ items' = its
          /\ quota' = quota - Len(its)
    /\ plNo' = plNo + 1
    /\ matched' = <<>>
    /\ idx' = 0
    /\ found' = <<>>
    /\ lastCreate' = NoCreate
    /\ pc' = "check"
    /\ UNCHANGED <<callArgs, results, missing_movies, cancel_event,
                   missingFile, ret, extra_msg, progress, nFind, touched,
                   createCount, missing_src, skipped, fm>>

\* line 97: the playlists are exhausted (the document had plNo of them)
EndOfPlaylists ==
    /\ pc = "for_pl"
    /\ pc' = "save"
    /\ UNCHANGED <<callArgs, quota, plNo, locals, results, missing_movies,
                   cancel_event, missingFile, ret, extra_msg, progress,
                   catalogHist, missing_src, skipped, fm>>

\* lines 124-128: the CSV base name is not a key of the map
CsvNotSelected ==
    /\ pc = "started"
    /\ kind = "csv"
    /\ \E name \in Names :
          /\ name \notin DOMAIN rename_map
          /\ original' = name
    /\ plNo' = 1
    /\ skipped' = skipped \cup {1}
    /\ results' = <<>>
    /\ missing_movies' = <<>>
    /\ ret' = <<>>
    /\ pc' = "returned"
    /\ UNCHANGED <<kind, rename_map, progress_callback, quota, new_name,
                   items, idx,
                   matched, found, cancel_event, missingFile, extra_msg,
                   progress, catalogHist, missing_src, fm>>

\* lines 124-132: the CSV rows are the items of the one playlist
OpenCsv ==
    /\ pc = "started"
    /\ kind = "csv"
    /\ \E name \in Names, its \in SeqsUpTo(DocItems, quota) :
          /\ name \in DOMAIN rename_map
          /\ original' = name
          /\ new_name' = rename_map[name]
          /\ items' = its
          /\ quota' = quota - Len(its)
    /\ plNo' = 1
    /\ results' = <<>>
    /\ missing_movies' = <<>>
    /\ matched' = <<>>
    /\ idx' = 0
    /\ found' = <<>>
    /\ pc' = "check"
    /\ UNCHANGED <<kind, rename_map, progress_callback, cancel_event,
                   missingFile, ret, extra_msg, progress, catalogHist,
                   missing_src, skipped, fm>>

\* the CSV path continuing with the playlist loop of the JSON path
AfterPlaylistAlwaysLoop == "for_pl"

\* where the worker goes when it is done with a playlist
AfterPlaylist == IF kind = "json" THEN "for_pl" ELSE "save"

\* the cancelled playlist still created: the loop's else branch run after break
ObserveCancelThenCreate ==
    /\ pc = "check"
    /\ idx < Len(items)
    /\ cancel_event = "set"
    /\ results' = Append(results,
                         Line(plNo, new_name, "cancelled", idx, Len(items)))
    /\ pc' = "create"
    /\ UNCHANGED <<callArgs, quota, plNo, locals, missing_movies, cancel_event,
                   missingFile, ret, extra_msg, progress, catalogHist,
                   missing_src, skipped, fm>>

\* the cancelled outcome counting the item that was not processed
ObserveCancelOffByOne ==
    /\ pc = "check"
    /\ idx < Len(items)
    /\ cancel_event = "set"
    /\ results' = Append(results,
                         Line(plNo, new_name, "cancelled", idx + 1, Len(items)))
    /\ pc' = AfterPlaylist
    /\ UNCHANGED <<callArgs, quota, plNo, locals, missing_movies, cancel_event,
                   missingFile, ret, extra_msg, progress, catalogHist,
                   missing_src, skipped, fm>>

\* lines 105-108 / 133-136: the signal is seen at the start of an iteration
ObserveCancel ==
    /\ pc = "check"
    /\ idx < Len(items)
    /\ cancel_event = "set"
    /\ results' = Append(results,
                         Line(plNo, new_name, "cancelled", idx, Len(items)))
    /\ pc' = AfterPlaylist
    /\ UNCHANGED <<callArgs, quota, plNo, locals, missing_movies, cancel_event,
                   missingFile, ret, extra_msg, progress, catalogHist,
                   missing_src, skipped, fm>>

\* lines 105-106: the signal is not set; the item is taken
BeginItem ==
    /\ pc = "check"
    /\ idx < Len(items)
    /\ cancel_event # "set"
    /\ pc' = "match"
    /\ UNCHANGED <<callArgs, quota, plNo, locals, results, missing_movies,
                   cancel_event, missingFile, ret, extra_msg, progress,
                   catalogHist, missing_src, skipped, fm>>

\* the matched entry inserted at the front of the list
RecordPrepend(o) ==
    /\ nFind' = [nFind EXCEPT ![plNo] = @ + 1]
    /\ touched' = IF o.calls # <<>> THEN touched \cup {plNo} ELSE touched
    /\ IF o.raised
       THEN /\ pc' = "raised"
            /\ UNCHANGED <<matched, missing_movies, missing_src, progress,
                           idx, found>>
       ELSE /\ IF o.media # None
               THEN /\ matched' = <<o.media>> \o matched
                    /\ UNCHANGED <<missing_movies, missing_src>>
               ELSE /\ missing_movies' = Append(missing_movies, items[idx + 1])
                    /\ missing_src' = Append(missing_src,
                                             [pl |-> plNo, idx |-> idx])
                    /\ UNCHANGED matched
            /\ found' = Append(found, o.media)
            /\ progress' = IF progress_callback
                           THEN Append(progress, [pl |-> plNo, i |-> idx + 1,
                                                  n |-> Len(items)])
                           ELSE progress
            /\ idx' = idx + 1
            /\ pc' = "check"
    /\ UNCHANGED <<callArgs, quota, plNo, original, new_name, items, results,
                   cancel_event, missingFile, ret, extra_msg, createCount,
                   lastCreate, skipped>>

\* the callback made only for the items that matched
RecordCallbackOnMatch(o) ==
    /\ nFind' = [nFind EXCEPT ![plNo] = @ + 1]
    /\ touched' = IF o.calls # <<>> THEN touched \cup {plNo} ELSE touched
    /\ IF o.raised
       THEN /\ pc' = "raised"
            /\ UNCHANGED <<matched, missing_movies, missing_src, progress,
                           idx, found>>
       ELSE /\ IF o.media # None
               THEN /\ matched' = Append(matched, o.media)
                    /\ progress' = IF progress_callback
                                   THEN Append(progress,
                                               [pl |-> plNo, i |-> idx + 1,
                                                n |-> Len(items)])
                                   ELSE progress
                    /\ UNCHANGED <<missing_movies, missing_src>>
               ELSE /\ missing_movies' = Append(missing_movies, items[idx + 1])
                    /\ missing_src' = Append(missing_src,
                                             [pl |-> plNo, idx |-> idx])
                    /\ UNCHANGED <<matched, progress>>
            /\ found' = Append(found, o.media)
            /\ idx' = idx + 1
            /\ pc' = "check"
    /\ UNCHANGED <<callArgs, quota, plNo, original, new_name, items, results,
                   cancel_event, missingFile, ret, extra_msg, createCount,
                   lastCreate, skipped>>

\* lines 109-115: the item is matched, recorded and reported
Record(o) ==
    /\ nFind' = [nFind EXCEPT ![plNo] = @ + 1]
    /\ touched' = IF o.calls # <<>> THEN touched \cup {plNo} ELSE touched
    /\ IF o.raised
       THEN /\ pc' = "raised"
            /\ UNCHANGED <<matched, missing_movies, missing_src, progress,
                           idx, found>>
       ELSE /\ IF o.media # None
               THEN /\ matched' = Append(matched, o.media)
                    /\ UNCHANGED <<missing_movies, missing_src>>
               ELSE /\ missing_movies' = Append(missing_movies, items[idx + 1])
                    /\ missing_src' = Append(missing_src,
                                             [pl |-> plNo, idx |-> idx])
                    /\ UNCHANGED matched
            /\ found' = Append(found, o.media)
            /\ progress' = IF progress_callback
                           THEN Append(progress, [pl |-> plNo, i |-> idx + 1,
                                                  n |-> Len(items)])
                           ELSE progress
            /\ idx' = idx + 1
            /\ pc' = "check"
    /\ UNCHANGED <<callArgs, quota, plNo, original, new_name, items, results,
                   cancel_event, missingFile, ret, extra_msg, createCount,
                   lastCreate, skipped>>

\* the match attempt abandoned when the signal is set while it runs
MatchItemPreempted ==
    /\ pc = "match"
    /\ IF cancel_event = "set"
       THEN /\ results' = Append(results, Line(plNo, new_name, "cancelled",
                                               idx, Len(items)))
            /\ pc' = AfterPlaylist
            /\ UNCHANGED <<callArgs, quota, plNo, locals, missing_movies,
                           cancel_event, missingFile, ret, extra_msg,
                           progress, catalogHist, missing_src, skipped>>
       ELSE \E io \in Outcomes : io[1] = items[idx + 1] /\ Record(io[2])
    /\ UNCHANGED fm

MatchItem ==
    /\ pc = "match"
    /\ \E io \in Outcomes : io[1] = items[idx + 1] /\ Record(io[2])
    /\ UNCHANGED fm

\* the playlist created before its last items were matched
LoopExhaustedEarly ==
    /\ pc = "check"
    /\ idx = Len(items) \/ idx >= 1
    /\ pc' = "create"
    /\ UNCHANGED <<callArgs, quota, plNo, locals, results, missing_movies,
                   cancel_event, missingFile, ret, extra_msg, progress,
                   catalogHist, missing_src, skipped, fm>>

\* the for-loop ran to completion: its else branch is taken (lines 116-117)
LoopExhausted ==
    /\ pc = "check"
    /\ idx = Len(items)
    /\ pc' = "create"
    /\ UNCHANGED <<callArgs, quota, plNo, locals, results, missing_movies,
                   cancel_event, missingFile, ret, extra_msg, progress,
                   catalogHist, missing_src, skipped, fm>>

\* createPlaylist called outside any try: its failure leaves the function
CreateUncaught(ok) ==
    /\ createCount' = [createCount EXCEPT ![plNo] = @ + 1]
    /\ lastCreate' = [pl |-> plNo, name |-> new_name, items |-> matched,
                      ok |-> ok]
    /\ touched' = touched \cup {plNo}
    /\ results' = IF ok THEN Append(results, Line(plNo, new_name, "added",
                                                  Len(matched), Len(items)))
                  ELSE results
    /\ pc' = IF ok THEN AfterPlaylist ELSE "raised"
    /\ UNCHANGED <<callArgs, quota, plNo, locals, missing_movies, cancel_event,
                   missingFile, ret, extra_msg, progress, nFind,
                   missing_src, skipped, fm>>

\* a failed creation that leaves no line in the summary
CreateErrorSilent(ok) ==
    /\ createCount' = [createCount EXCEPT ![plNo] = @ + 1]
    /\ lastCreate' = [pl |-> plNo, name |-> new_name, items |-> matched,
                      ok |-> ok]
    /\ touched' = touched \cup {plNo}
    /\ results' = IF ok THEN Append(results, Line(plNo, new_name, "added",
                                                  Len(matched), Len(items)))
                  ELSE results
    /\ pc' = AfterPlaylist
    /\ UNCHANGED <<callArgs, quota, plNo, locals, missing_movies, cancel_event,
                   missingFile, ret, extra_msg, progress, nFind,
                   missing_src, skipped, fm>>

\* the added line counting the playlist's items as matched
CreateCountsItems(ok) ==
    /\ createCount' = [createCount EXCEPT ![plNo] = @ + 1]
    /\ lastCreate' = [pl |-> plNo, name |-> new_name, items |-> matched,
                      ok |-> ok]
    /\ touched' = touched \cup {plNo}
    /\ results' = Append(results,
                     IF ok THEN Line(plNo, new_name, "added", Len(items),
                                     Len(items))
                     ELSE Line(plNo, new_name, "error", 0, 0))
    /\ pc' = AfterPlaylist
    /\ UNCHANGED <<callArgs, quota, plNo, locals, missing_movies, cancel_event,
                   missingFile, ret, extra_msg, progress, nFind,
                   missing_src, skipped, fm>>

\* lines 117-122 / 145-150: createPlaylist returns or raises
Create(ok) ==
    /\ createCount' = [createCount EXCEPT ![plNo] = @ + 1]
    /\ lastCreate' = [pl |-> plNo, name |-> new_name, items |-> matched,
                      ok |-> ok]
    /\ touched' = touched \cup {plNo}
    /\ results' = Append(results,
                     IF ok THEN Line(plNo, new_name, "added", Len(matched),
                                     Len(items))
                     ELSE Line(plNo, new_name, "error", 0, 0))
    /\ pc' = AfterPlaylist
    /\ UNCHANGED <<callArgs, quota, plNo, locals, missing_movies, cancel_event,
                   missingFile, ret, extra_msg, progress, nFind,
                   missing_src, skipped, fm>>

CreatePlaylist ==
    /\ pc = "create"
    /\ \E ok \in BOOLEAN : Create(ok)

\* the side file written whether or not an item was unmatched
SaveMissingAlways ==
    /\ pc = "save"
    /\ missingFile' = [exists |-> TRUE, content |-> missing_movies]
    /\ ret' = results
    /\ pc' = "returned"
    /\ original' = ""
    /\ new_name' = ""
    /\ items' = <<>>
    /\ idx' = 0
    /\ matched' = <<>>
    /\ found' = <<>>
    /\ lastCreate' = NoCreate
    /\ UNCHANGED <<callArgs, quota, plNo, results, missing_movies,
                   cancel_event, extra_msg, progress, nFind, touched,
                   createCount, missing_src, skipped, fm>>

\* lines 151-155: the side file is written when there are misses
SaveMissing ==
    /\ pc = "save"
    /\ missingFile' = IF missing_movies # <<>>
                      THEN [exists |-> TRUE, content |-> missing_movies]
                      ELSE missingFile
    /\ ret' = results
    /\ pc' = "returned"
    \* the function returns: the locals of the playlist loop are gone
    /\ original' = ""
    /\ new_name' = ""
    /\ items' = <<>>
    /\ idx' = 0
    /\ matched' = <<>>
    /\ found' = <<>>
    /\ lastCreate' = NoCreate
    /\ UNCHANGED <<callArgs, quota, plNo, results, missing_movies,
                   cancel_event, extra_msg, progress, nFind, touched,
                   createCount, missing_src, skipped, fm>>

(* ---------------------- PlexPlaylistApp.run_import --------------------- *)
\* lines 378-402: the worker looks at the side file and shows the results
ShowResults ==
    /\ pc = "returned"
    /\ progress_callback
    /\ IF missingFile.exists
       THEN IF missingFile.content # <<>>
            THEN /\ extra_msg' = TRUE
                 /\ UNCHANGED missingFile
            ELSE /\ missingFile' = NoFile
                 /\ UNCHANGED extra_msg
       ELSE UNCHANGED <<missingFile, extra_msg>>
    /\ pc' = "shown"
    /\ UNCHANGED <<callArgs, quota, plNo, locals, results, missing_movies,
                   cancel_event, ret, progress, catalogHist, missing_src,
                   skipped, fm>>

\* lines 403-404: an error raised by import_from_file is shown
ShowError ==
    /\ pc = "raised"
    /\ progress_callback
    /\ pc' = "error_shown"
    /\ UNCHANGED <<callArgs, quota, plNo, locals, results, missing_movies,
                   cancel_event, missingFile, ret, extra_msg, progress,
                   catalogHist, missing_src, skipped, fm>>

Next ==
    \/ ImportPlaylists
    \/ SetCancel
    \/ OpenJson
    \/ SkipPlaylist
    \/ BeginPlaylist
    \/ EndOfPlaylists
    \/ CsvNotSelected
    \/ OpenCsv
    \/ ObserveCancel
    \/ BeginItem
    \/ MatchItem
    \/ LoopExhausted
    \/ CreatePlaylist
    \/ SaveMissing
    \/ ShowResults
    \/ ShowError

Spec == Init /\ [][Next]_vars

\* The worker thread's own steps through import_from_file (lines 92-155):
\* the thread, once started, is scheduled until the call returns or raises.
WorkerStep ==
    \/ OpenJson
    \/ SkipPlaylist
    \/ BeginPlaylist
    \/ EndOfPlaylists
    \/ CsvNotSelected
    \/ OpenCsv
    \/ ObserveCancel
    \/ BeginItem
    \/ MatchItem
    \/ LoopExhausted
    \/ CreatePlaylist
    \/ SaveMissing

\* The import under a scheduler that keeps running the worker thread.
SpecLive == Init /\ [][Next]_vars /\ WF_vars(WorkerStep)

(* ------------- one matching attempt against fixed answers -------------- *)
\* The worker is about to match the only item of the only playlist of a
\* JSON document; the answers the catalog will give are fixed in fm_resp.
InitFind ==
    /\ pc = "match"
    /\ kind = "json"
    /\ rename_map = [n \in {"A"} |-> "X"]
    /\ plNo = 1
    /\ original = "A"
    /\ new_name = "X"
    /\ \E it \in Items : items = <<it>>
    /\ quota = 0
    /\ idx = 0
    /\ matched = <<>>
    /\ results = <<>>
    /\ missing_movies = <<>>
    /\ cancel_event = "clear"
    /\ progress_callback = TRUE
    /\ missingFile = NoFile
    /\ ret = <<>>
    /\ extra_msg = FALSE
    /\ progress = <<>>
    /\ nFind = [p \in 1..MaxPlaylists |-> 0]
    /\ touched = {}
    /\ createCount = [p \in 1..MaxPlaylists |-> 0]
    /\ lastCreate = NoCreate
    /\ found = <<>>
    /\ missing_src = <<>>
    /\ skipped = {}
    /\ fm_resp \in Resps
    /\ fm_out = NoOut
    /\ NoFileWork
    /\ NoUiWork

\* line 109 with the catalog answering as fm_resp says
MatchItemResp ==
    /\ pc = "match"
    /\ LET o == FindMedia(items[idx + 1], fm_resp) IN
         /\ Record(o)
         /\ fm_out' = o
    /\ UNCHANGED <<fm_resp, fileVars, uiVars>>

NextFind ==
    \/ MatchItemResp
    \/ LoopExhausted
    \/ CreatePlaylist
    \/ EndOfPlaylists
    \/ SaveMissing
    \/ ShowResults
    \/ ShowError

SpecFind == InitFind /\ [][NextFind]_vars

(* -------------------- export_to_json, preview_import ------------------- *)
\* A file of some content lies at file_path; playlists may be exported to
\* it, and it may be previewed.
InitFile ==
    /\ pc = "file_idle"
    /\ kind = "json"
    /\ rename_map = <<>>
    /\ plNo = 0
    /\ original = ""
    /\ new_name = ""
    /\ items = <<>>
    /\ quota = 0
    /\ idx = 0
    /\ matched = <<>>
    /\ results = <<>>
    /\ missing_movies = <<>>
    /\ cancel_event = "none"
    /\ progress_callback = FALSE
    /\ missingFile = NoFile
    /\ ret = <<>>
    /\ extra_msg = FALSE
    /\ progress = <<>>
    /\ nFind = [p \in 1..MaxPlaylists |-> 0]
    /\ touched = {}
    /\ createCount = [p \in 1..MaxPlaylists |-> 0]
    /\ lastCreate = NoCreate
    /\ found = <<>>
    /\ missing_src = <<>>
    /\ skipped = {}
    /\ fm_resp = NoResp
    /\ fm_out = NoOut
    /\ playlists \in SeqsUpTo(PlaylistObjs, MaxPlaylists)
    /\ file_path \in Paths
    /\ file \in {Garbage, EmptyDoc}
    /\ names = PvRet(<<>>)
    /\ NoUiWork

importVars == <<kind, rename_map, plNo, original, new_name, items, quota,
                idx, matched, results, missing_movies, cancel_event,
                progress_callback, missingFile, ret, extra_msg, progress,
                nFind, touched, createCount, lastCreate, found, missing_src,
                skipped, fm_resp, fm_out>>

\* the playlists gathered in a dict keyed by title before they are written
ExportToJsonByTitle ==
    /\ pc = "file_idle"
    /\ LET first == {i \in DOMAIN playlists :
                        \A j \in 1..(i - 1) :
                            playlists[j].title # playlists[i].title}
           kept == SelectSeq([i \in DOMAIN playlists |-> i],
                             LAMBDA i : i \in first)
       IN file' = [valid |-> TRUE, has_playlists |-> TRUE,
                   playlists |->
                       [k \in DOMAIN kept |->
                           [name |-> JsonEscape(playlists[kept[k]].title),
                            description |-> <<>>,
                            items |-> <<>>]]]
    /\ pc' = "exported"
    /\ UNCHANGED <<importVars, uiVars, playlists, file_path, names>>

\* lines 16-37: the document is built and dumped to filepath
ExportToJson ==
    /\ pc = "file_idle"
    /\ file' = [valid |-> TRUE, has_playlists |-> TRUE,
                playlists |->
                    [i \in DOMAIN playlists |->
                        [name |-> JsonEscape(playlists[i].title),
                         description |->
                             JsonEscape(IF playlists[i].summary # None
                                        THEN playlists[i].summary ELSE <<>>),
                         items |-> playlists[i].items]]]
    /\ pc' = "exported"
    /\ UNCHANGED <<importVars, uiVars, playlists, file_path, names>>

\* lines 70-78: the names are read from a .json file, taken from the name
\* of a .csv file, and empty for any other file
PreviewImport ==
    /\ pc \in {"file_idle", "exported"}
    /\ names' =
          IF EndsWith(Lower(file_path), DotJson)
          THEN IF ~file.valid THEN PvRaised
               ELSE LET pls == IF file.has_playlists THEN file.playlists
                               ELSE <<>>
                    IN PvRet([i \in DOMAIN pls |-> JsonUnescape(pls[i].name)])
          ELSE IF EndsWith(Lower(file_path), DotCsv)
          THEN PvRet(<<Splitext0(file_path)>>)
          ELSE PvRet(<<>>)
    /\ pc' = IF pc = "exported" THEN "previewed_export" ELSE "previewed"
    /\ UNCHANGED <<importVars, uiVars, playlists, file_path, file>>

NextFile ==
    \/ ExportToJson
    \/ PreviewImport

SpecFile == InitFile /\ [][NextFile]_vars

(* ------------- PlexPlaylistApp: buttons, threads, callbacks ------------ *)
\* The window is connected; the user presses buttons, the threads started
\* by the handlers run, and the UI thread runs the queued callbacks.
InitUi ==
    /\ pc = "ui"
    /\ kind = "json"
    /\ rename_map = <<>>
    /\ plNo = 0
    /\ original = ""
    /\ new_name = ""
    /\ items = <<>>
    /\ quota = 0
    /\ idx = 0
    /\ matched = <<>>
    /\ results = <<>>
    /\ missing_movies = <<>>
    /\ cancel_event = "none"
    /\ progress_callback = FALSE
    /\ missingFile = NoFile
    /\ ret = <<>>
    /\ extra_msg = FALSE
    /\ progress = <<>>
    /\ nFind = [p \in 1..MaxPlaylists |-> 0]
    /\ touched = {}
    /\ createCount = [p \in 1..MaxPlaylists |-> 0]
    /\ lastCreate = NoCreate
    /\ found = <<>>
    /\ missing_src = <<>>
    /\ skipped = {}
    /\ fm_resp = NoResp
    /\ fm_out = NoOut
    /\ NoFileWork
    /\ btn = AllNormal
    /\ grab = FALSE
    /\ disabled = FALSE
    /\ after_q = <<>>
    /\ workers = [importing |-> 0, returned |-> 0]
    /\ refreshing = [export |-> 0, modify |-> 0]
    /\ modifying = FALSE
    /\ inflight = 0
    /\ clicks = MaxClicks
    /\ threads = {}
    /\ shutting_down = FALSE
    /\ destroyed = FALSE

notUi == <<pc, importVars, fileVars>>

\* the user can press button b: the UI thread is idle, the main window is
\* neither disabled nor locked out by a modal grab, the button is NORMAL
CanClick(b) ==
    /\ ~modifying
    /\ ~grab
    /\ ~disabled
    /\ btn[b]
    /\ clicks > 0
    /\ ~destroyed

\* lines 179-193: the four buttons are disabled and the thread is started
RefreshExportPlaylists ==
    /\ btn' = [btn EXCEPT !.export_refresh = FALSE,
                          !.export_selected = FALSE,
                          !.import_selected = FALSE,
                          !.modify_selected = FALSE]
    /\ refreshing' = [refreshing EXCEPT !.export = @ + 1]

\* lines 196-210
RefreshModifyPlaylists ==
    /\ btn' = [btn EXCEPT !.modify_refresh = FALSE,
                          !.export_selected = FALSE,
                          !.import_selected = FALSE,
                          !.modify_selected = FALSE]
    /\ refreshing' = [refreshing EXCEPT !.modify = @ + 1]

\* the Refresh Playlists button of the Export tab (line 170)
ClickRefreshExport ==
    /\ CanClick("export_refresh")
    /\ RefreshExportPlaylists
    /\ clicks' = clicks - 1
    /\ UNCHANGED <<notUi, closeVars, grab, disabled, after_q, workers, modifying,
                   inflight>>

\* the Refresh Playlists button of the Modify tab (line 415)
ClickRefreshModify ==
    /\ CanClick("modify_refresh")
    /\ RefreshModifyPlaylists
    /\ clicks' = clicks - 1
    /\ UNCHANGED <<notUi, closeVars, grab, disabled, after_q, workers, modifying,
                   inflight>>

\* lines 183-192: the export refresh thread ends and queues its callbacks
RefreshExportDone ==
    /\ refreshing.export > 0
    /\ refreshing' = [refreshing EXCEPT !.export = @ - 1]
    /\ after_q' = after_q \o <<"enable_export_refresh",
                               "enable_export_selected",
                               "enable_import_selected",
                               "enable_modify_selected">>
    /\ UNCHANGED <<notUi, closeVars, btn, grab, disabled, workers, modifying, inflight,
                   clicks>>

\* lines 200-209: the modify refresh thread ends and queues its callbacks
RefreshModifyDone ==
    /\ refreshing.modify > 0
    /\ refreshing' = [refreshing EXCEPT !.modify = @ - 1]
    /\ after_q' = after_q \o <<"enable_modify_refresh",
                               "enable_export_selected",
                               "enable_import_selected",
                               "enable_modify_selected">>
    /\ UNCHANGED <<notUi, closeVars, btn, grab, disabled, workers, modifying, inflight,
                   clicks>>

\* import_playlists starting its worker while the main window stays usable
ClickImportNoModal ==
    /\ CanClick("import_selected")
    /\ clicks' = clicks - 1
    /\ \/ UNCHANGED <<workers, inflight>>
       \/ /\ workers' = [workers EXCEPT !.importing = @ + 1]
          /\ inflight' = inflight + 1
    /\ UNCHANGED <<notUi, closeVars, btn, grab, disabled, after_q, refreshing, modifying>>

\* lines 303-408: the Import Selected button. The handler returns early
\* (no file, nothing selected, a conflict not resolved), or it opens the
\* progress dialog with a modal grab, disables the main window and starts
\* the worker, which calls import_from_file.
ClickImport ==
    /\ CanClick("import_selected")
    /\ clicks' = clicks - 1
    /\ \/ UNCHANGED <<grab, disabled, workers, inflight>>
       \/ /\ grab' = TRUE
          /\ disabled' = TRUE
          /\ workers' = [workers EXCEPT !.importing = @ + 1]
          /\ inflight' = inflight + 1
    /\ UNCHANGED <<notUi, closeVars, btn, after_q, refreshing, modifying>>

\* line 377 (or 403): import_from_file returns to the worker, or raises
WorkerReturn ==
    /\ workers.importing > 0
    /\ workers' = [importing |-> workers.importing - 1,
                   returned |-> workers.returned + 1]
    /\ inflight' = inflight - 1
    /\ UNCHANGED <<notUi, closeVars, btn, grab, disabled, after_q, refreshing, modifying,
                   clicks>>

\* lines 396-407: the worker queues the results and the refreshes (when
\* the import returned), then the dialog's destruction and the window's
\* re-enabling
WorkerSchedule ==
    /\ workers.returned > 0
    /\ workers' = [workers EXCEPT !.returned = @ - 1]
    /\ \E ok \in BOOLEAN :
          after_q' = after_q
                     \o (IF ok THEN <<"refresh_export", "refresh_modify">>
                         ELSE <<>>)
                     \o <<"destroy_dialog", "enable_window">>
    /\ UNCHANGED <<notUi, closeVars, btn, grab, disabled, refreshing, modifying, inflight,
                   clicks>>

\* the UI thread runs the callback at the head of the queue
RunAfter ==
    /\ ~modifying
    /\ ~destroyed
    /\ after_q # <<>>
    /\ after_q' = Tail(after_q)
    /\ LET cb == Head(after_q) IN
       CASE cb = "refresh_export" ->
                /\ RefreshExportPlaylists
                /\ UNCHANGED <<grab, disabled>>
         [] cb = "refresh_modify" ->
                /\ RefreshModifyPlaylists
                /\ UNCHANGED <<grab, disabled>>
         [] cb = "destroy_dialog" ->
                /\ grab' = FALSE
                /\ UNCHANGED <<btn, disabled, refreshing>>
         [] cb = "enable_window" ->
                /\ disabled' = FALSE
                /\ UNCHANGED <<btn, grab, refreshing>>
         [] cb = "enable_export_refresh" ->
                /\ btn' = [btn EXCEPT !.export_refresh = TRUE]
                /\ UNCHANGED <<grab, disabled, refreshing>>
         [] cb = "enable_modify_refresh" ->
                /\ btn' = [btn EXCEPT !.modify_refresh = TRUE]
                /\ UNCHANGED <<grab, disabled, refreshing>>
         [] cb = "enable_export_selected" ->
                /\ btn' = [btn EXCEPT !.export_selected = TRUE]
                /\ UNCHANGED <<grab, disabled, refreshing>>
         [] cb = "enable_import_selected" ->
                /\ btn' = [btn EXCEPT !.import_selected = TRUE]
                /\ UNCHANGED <<grab, disabled, refreshing>>
         [] cb = "enable_modify_selected" ->
                /\ btn' = [btn EXCEPT !.modify_selected = TRUE]
                /\ UNCHANGED <<grab, disabled, refreshing>>
    /\ UNCHANGED <<notUi, closeVars, workers, modifying, inflight, clicks>>

\* lines 436-463: the Modify button; after its early returns the handler
\* calls import_from_file on the UI thread
ClickModify ==
    /\ CanClick("modify_selected")
    /\ clicks' = clicks - 1
    /\ \/ UNCHANGED <<modifying, inflight>>
       \/ /\ modifying' = TRUE
          /\ inflight' = inflight + 1
    /\ UNCHANGED <<notUi, closeVars, btn, grab, disabled, after_q, workers, refreshing>>

\* lines 463-468: import_from_file returns to modify_playlist, which ends
ModifyReturn ==
    /\ modifying
    /\ modifying' = FALSE
    /\ inflight' = inflight - 1
    /\ UNCHANGED <<notUi, closeVars, btn, grab, disabled, after_q, workers, refreshing,
                   clicks>>

\* lines 71-84: the window is closed. The flag is set, the threads
\* recorded in self._threads are joined, the window is destroyed.
OnClose ==
    /\ ~modifying
    /\ ~grab
    /\ ~disabled
    /\ ~destroyed
    /\ shutting_down' = TRUE
    /\ \A t \in threads :
          CASE t = "refresh_export" -> refreshing.export = 0
            [] t = "refresh_modify" -> refreshing.modify = 0
            [] t = "run_import" -> workers.importing + workers.returned = 0
    /\ destroyed' = TRUE
    /\ UNCHANGED <<notUi, btn, grab, disabled, after_q, workers, refreshing,
                   modifying, inflight, clicks, threads>>

NextUi ==
    \/ ClickRefreshExport
    \/ ClickRefreshModify
    \/ RefreshExportDone
    \/ RefreshModifyDone
    \/ ClickImport
    \/ WorkerReturn
    \/ WorkerSchedule
    \/ RunAfter
    \/ ClickModify
    \/ ModifyReturn
    \/ OnClose

SpecUi == InitUi /\ [][NextUi]_vars

(* -------------------- PlexPlaylistApp.modify_playlist ------------------ *)
\* the items of the playlist on the server: item.guid and item.year
ServerItems == [guid : {<<>>, <<"i", ":", "t", "1">>}, year : {None, 1}]

\* lines 24-30: the serialized form of a server item;
\* item.guid.split('://')[-1] is what follows the scheme
ExportItem(it) ==
    [key |-> 1,
     imdb |-> IF it.guid = <<>> THEN <<>>
              ELSE SubSeq(it.guid, 3, Len(it.guid)),
     year |-> it.year]

\* line 453: items.sort(key=(year or 0, title)), a stable sort; the items
\* of the model bear one title
SortByYear(its) ==
    SelectSeq(its, LAMBDA x : x.year = None)
    \o SelectSeq(its, LAMBDA x : x.year # None)

\* the title of the playlist selected on the Modify tab
Selected == <<"A">>

\* the temporary file of lines 446-448
TempPath == <<"t", "m", "p">> \o DotJson

\* The playlist selected on the Modify tab was found on the server.
InitModify ==
    /\ pc = "mod_selected"
    /\ kind = "json"
    /\ rename_map = <<>>
    /\ plNo = 0
    /\ original = ""
    /\ new_name = ""
    /\ items = <<>>
    /\ quota = 0
    /\ idx = 0
    /\ matched = <<>>
    /\ results = <<>>
    /\ missing_movies = <<>>
    /\ cancel_event = "none"
    /\ progress_callback = FALSE
    /\ missingFile = NoFile
    /\ ret = <<>>
    /\ extra_msg = FALSE
    /\ progress = <<>>
    /\ nFind = [p \in 1..MaxPlaylists |-> 0]
    /\ touched = {}
    /\ createCount = [p \in 1..MaxPlaylists |-> 0]
    /\ lastCreate = NoCreate
    /\ found = <<>>
    /\ missing_src = <<>>
    /\ skipped = {}
    /\ fm_resp = NoResp
    /\ fm_out = NoOut
    /\ \E its \in SeqsUpTo(ServerItems, MaxDocItems) :
          playlists = <<[title |-> Selected, summary |-> None, items |-> its]>>
    /\ file_path = TempPath
    /\ file = Garbage
    /\ names = PvRet(<<>>)
    /\ NoUiWork

\* lines 446-456: the playlist is exported to a temporary file, the items
\* of the document are sorted and the document is written back
ModifyExportSort ==
    /\ pc = "mod_selected"
    /\ file' = [valid |-> TRUE, has_playlists |-> TRUE,
                playlists |->
                    [i \in DOMAIN playlists |->
                        [name |-> JsonEscape(playlists[i].title),
                         description |-> <<>>,
                         items |-> SortByYear(
                             [k \in DOMAIN playlists[i].items |->
                                 ExportItem(playlists[i].items[k])])]]]
    /\ pc' = "mod_exported"
    /\ UNCHANGED <<importVars, uiVars, playlists, file_path, names>>

\* lines 457-462: the original is deleted; on failure an error is shown
\* and the handler returns, otherwise import_from_file is called with
\* {selected: selected} and neither callback nor cancel event
ModifyDelete ==
    /\ pc = "mod_exported"
    /\ \E ok \in BOOLEAN :
          IF ok
          THEN /\ pc' = "started"
               /\ kind' = "json"
               /\ rename_map' = [n \in {Selected} |-> Selected]
               /\ cancel_event' = "none"
               /\ progress_callback' = FALSE
          ELSE /\ pc' = "mod_delete_failed"
               /\ UNCHANGED <<kind, rename_map, cancel_event,
                              progress_callback>>
    /\ UNCHANGED <<quota, plNo, locals, results, missing_movies, missingFile,
                   ret, extra_msg, progress, catalogHist, missing_src,
                   skipped, fm>>

\* playlist_io lines 97-104, the document being the file's: the next
\* playlist of the file is a key of the map and its locals are set up
BeginPlaylistOfFile ==
    /\ pc = "for_pl"
    /\ plNo < Len(file.playlists)
    /\ LET pl == file.playlists[plNo + 1] IN
          /\ JsonUnescape(pl.name) \in DOMAIN rename_map
          /\ original' = JsonUnescape(pl.name)
          /\ new_name' = rename_map[JsonUnescape(pl.name)]
          /\ items' = pl.items
    /\ plNo' = plNo + 1
    /\ matched' = <<>>
    /\ idx' = 0
    /\ found' = <<>>
    /\ lastCreate' = NoCreate
    /\ pc' = "check"
    /\ UNCHANGED <<callArgs, quota, results, missing_movies, cancel_event,
                   missingFile, ret, extra_msg, progress, nFind, touched,
                   createCount, missing_src, skipped, fm>>

\* playlist_io line 97: the playlists of the file are exhausted
EndOfFilePlaylists ==
    /\ plNo = Len(file.playlists)
    /\ EndOfPlaylists

\* lines 462-463: the result of import_from_file is not looked at and the
\* 'Playlist Modified' message is shown
ModifySuccess ==
    /\ pc = "returned"
    /\ ~progress_callback
    /\ pc' = "modified"
    /\ UNCHANGED <<importVars, fileVars, uiVars>>

NextModify ==
    \/ ModifyExportSort
    \/ ModifyDelete
    \/ OpenJson
    \/ BeginPlaylistOfFile
    \/ EndOfFilePlaylists
    \/ BeginItem
    \/ MatchItem
    \/ LoopExhausted
    \/ CreatePlaylist
    \/ SaveMissing
    \/ ModifySuccess

SpecModify == InitModify /\ [][NextModify]_vars

(* ------------------------------ properties ----------------------------- *)
ProgressCount(p) == Cardinality({i \in DOMAIN progress : progress[i].pl = p})
LinesOf(p) == {i \in DOMAIN results : results[i].pl = p}
IsEntry(m) == m # None
InLoop == pc = "check" /\ idx < Len(items)

\* C1: once a playlist's loop has observed the cancellation signal (its
\* cancelled outcome is recorded at index k), find_media_in_plex has been
\* called for exactly the k items before it and is never called for the
\* remaining ones, and createPlaylist is never called for that playlist;
\* on the JSON and on the CSV path.
C1_NoWorkAfterCancel ==
    \A i \in DOMAIN results :
        results[i].kind = "cancelled" =>
            /\ nFind[results[i].pl] = results[i].a
            /\ createCount[results[i].pl] = 0
            /\ (results[i].pl = plNo => pc \notin {"match", "create"})

W1_CancelledCsv ==
    /\ kind = "csv"
    /\ pc = "returned"
    /\ \E i \in DOMAIN results :
          results[i].kind = "cancelled" /\ results[i].a = 1 /\ results[i].b = 2

\* C2: when the signal is set and the worker stands at the check of item
\* k+1 of a playlist of N items (k items processed, k < N), its next step
\* records "<target name>: Import cancelled at k/N" and makes no further
\* progress call; a playlist with that outcome has no other outcome line,
\* is never created, and its progress callback ran exactly k times.
C2_Lines ==
    \A i \in DOMAIN results :
        results[i].kind = "cancelled" =>
            /\ results[i].a < results[i].b
            /\ LinesOf(results[i].pl) = {i}
            /\ createCount[results[i].pl] = 0
            /\ progress_callback => ProgressCount(results[i].pl) = results[i].a

C2_Step ==
    (InLoop /\ cancel_event = "set") =>
        /\ results' = Append(results, Line(plNo, rename_map[original],
                                           "cancelled", idx, Len(items)))
        /\ progress' = progress
        /\ createCount' = createCount

C2_CancelledAtK == [](C2_Lines) /\ [][C2_Step]_vars

W2_CancelledAfterOne ==
    /\ kind = "json"
    /\ pc = "for_pl"
    /\ results # <<>>
    /\ results[Len(results)] = Line(plNo, "X", "cancelled", 1, 2)
    /\ ProgressCount(plNo) = 1

\* C3 (as claimed): a failure of a catalog call made while matching never
\* propagates out of import_from_file.
C3_MatchFailureAbsorbed == pc \notin {"raised", "error_shown"}

\* C4: the step that calls createPlaylist never leaves import_from_file by
\* an exception; it appends exactly one line, "<target name>: ERROR ..."
\* when the call raised, and leaves everything the following playlists
\* depend on as a successful creation leaves it.
C4_Step ==
    (pc = "create" /\ pc' # "create") =>
        /\ pc' = AfterPlaylist
        /\ Len(results') = Len(results) + 1
        /\ SubSeq(results', 1, Len(results)) = results
        /\ results'[Len(results')].kind =
               (IF lastCreate'.ok THEN "added" ELSE "error")
        /\ results'[Len(results')].pl = plNo
        /\ results'[Len(results')].name = rename_map[original]
        /\ LinesOf(plNo) = {}
        /\ UNCHANGED <<callArgs, plNo, cancel_event, missing_movies,
                       missing_src, missingFile, progress, nFind, skipped>>

C4_CreateFailureReported == [][C4_Step]_vars

W4_ErrorThenAdded ==
    /\ pc = "returned"
    /\ Len(results) = 2
    /\ results[1].kind = "error"
    /\ results[2].kind = "added"
    /\ results[2].b = 2

\* C5: a playlist whose original name is not a key of the rename map
\* contributes no outcome line, no progress call, no unmatched item and no
\* catalog call (find_media_in_plex or createPlaylist).
C5_SkippedUntouched ==
    \A p \in skipped :
        /\ LinesOf(p) = {}
        /\ ProgressCount(p) = 0
        /\ \A j \in DOMAIN missing_src : missing_src[j].pl # p
        /\ p \notin touched
        /\ nFind[p] = 0
        /\ createCount[p] = 0

W5_SkippedBesideImported ==
    /\ pc = "returned"
    /\ skipped = {1}
    /\ Len(results) = 1
    /\ results[1].pl = 2
    /\ missing_movies # <<>>

\* C6: a playlist whose loop ran to completion is created exactly once,
\* under the name rename_map[original], with the entries its matches
\* returned, in item order, the unmatched items removed.
C6_CreateRequest ==
    /\ \A p \in DOMAIN createCount : createCount[p] <= 1
    /\ \A i \in DOMAIN results :
          results[i].kind \in {"added", "error"} =>
              createCount[results[i].pl] = 1
    /\ (lastCreate.pl # 0 /\ lastCreate.pl = plNo) =>
          /\ lastCreate.name = rename_map[original]
          /\ Len(found) = Len(items)
          /\ lastCreate.items = SelectSeq(found, IsEntry)

W6_TwoMatchedInOrder ==
    /\ lastCreate.pl = plNo
    /\ lastCreate.ok
    /\ found = <<2, None, 1>>
    /\ lastCreate.items = <<2, 1>>

\* C7 (as claimed): after a run with no unmatched item no side file is
\* left and the results carry no missing-movies warning.
C7_NoStaleWarning ==
    (pc = "shown" /\ missing_movies = <<>>) =>
        (~missingFile.exists /\ ~extra_msg)

FmItem == items[1]
FmDone == pc # "match" /\ items # <<>>

\* C8: for an item with a stable identifier that the fetch resolves,
\* find_media_in_plex returns the fetched entry and makes no other call.
C8_FetchOnly ==
    (FmDone /\ FmItem.key # None /\ ~fm_resp.fetch.raise) =>
        /\ ~fm_out.raised
        /\ fm_out.media = fm_resp.fetch.entry
        /\ fm_out.calls = <<"fetchItem">>

W8_FetchedWithExternalId ==
    /\ FmDone
    /\ FmItem.key # None
    /\ FmItem.imdb # <<>>
    /\ ~fm_resp.fetch.raise
    /\ matched = <<fm_resp.fetch.entry>>

\* C9: for an item without a stable identifier but with an external id,
\* when the Movies section cannot be obtained find_media_in_plex returns
\* no match, makes no search call, and the item is in the collector.
C9_NoSectionNoSearch ==
    (FmDone /\ FmItem.key = None /\ FmItem.imdb # <<>> /\ ~fm_resp.section) =>
        /\ ~fm_out.raised
        /\ fm_out.media = None
        /\ fm_out.calls = <<"section">>
        /\ missing_movies = <<FmItem>>
        /\ matched = <<>>

W9_SectionUnavailable ==
    /\ FmDone
    /\ pc = "save"
    /\ FmItem.key = None
    /\ FmItem.imdb # <<>>
    /\ ~fm_resp.section
    /\ ~fm_resp.s_imdb.raise
    /\ fm_resp.s_imdb.hits # <<>>
    /\ fm_out.calls = <<"section">>
    /\ missing_movies = <<FmItem>>

\* C10: when the fetch by stable identifier fails, find_media_in_plex
\* gives what it gives for the same item without the identifier: the same
\* result after the same further calls.
C10_FetchFailureFallsThrough ==
    (FmDone /\ FmItem.key # None /\ fm_resp.fetch.raise) =>
        LET bare == FindMedia([FmItem EXCEPT !.key = None], fm_resp) IN
            /\ fm_out.raised = bare.raised
            /\ fm_out.media = bare.media
            /\ fm_out.calls = <<"fetchItem">> \o bare.calls

W10_FellThroughToMatch ==
    /\ FmDone
    /\ FmItem.key # None
    /\ fm_resp.fetch.raise
    /\ fm_out.media # None
    /\ Len(fm_out.calls) = 4
    /\ matched = <<fm_out.media>>

\* the progress calls made for playlist p, in the order they were made
ProgressOf(p) == SelectSeq(progress, LAMBDA e : e.pl = p)

\* C11: with a callback supplied, the calls made for a playlist are
\* (1, N), (2, N), ... without a gap, N the playlist's item count; there is
\* one per item whose match attempt returned, matched or not; a call is
\* made only by the step that ends a match attempt, and none by the
\* iteration that observes the cancellation or after it.
C11_Calls ==
    /\ \A j \in DOMAIN progress :
          progress[j].i =
              Cardinality({k \in 1..j : progress[k].pl = progress[j].pl})
    /\ \A p \in 1..MaxPlaylists :
          /\ ProgressCount(p) <= nFind[p]
          /\ (pc \notin {"raised", "error_shown"} \/ p # plNo) =>
                 ProgressCount(p) = nFind[p]
    /\ (pc \in {"check", "match", "create", "raised"}) =>
          ProgressOf(plNo) = [k \in 1..Len(found) |->
                                 [pl |-> plNo, i |-> k, n |-> Len(items)]]
    /\ \A i \in DOMAIN results :
          results[i].kind \in {"added", "cancelled"} =>
              /\ ProgressCount(results[i].pl) =
                     (IF results[i].kind = "added" THEN results[i].b
                      ELSE results[i].a)
              /\ \A j \in DOMAIN progress :
                    progress[j].pl = results[i].pl =>
                        progress[j].n = results[i].b

C11_Step ==
    progress' # progress =>
        /\ pc = "match"
        /\ pc' = "check"
        /\ progress' = Append(progress, [pl |-> plNo, i |-> idx + 1,
                                         n |-> Len(items)])
        /\ Len(found') = Len(found) + 1
        /\ idx' = idx + 1
        /\ cancel_event' = cancel_event

C11_ProgressContiguous == [](C11_Calls) /\ [][C11_Step]_vars

W11_TwoOfThreeThenCancelled ==
    /\ pc = "for_pl"
    /\ progress = <<[pl |-> 1, i |-> 1, n |-> 3], [pl |-> 1, i |-> 2, n |-> 3]>>
    /\ found = <<None, 1>>
    /\ results = <<Line(1, "X", "cancelled", 2, 3)>>

\* C12: setting the signal changes nothing but the signal; a match attempt
\* that is under way when the signal is set ends as it ends without it (the
\* result recorded, the callback made, the index advanced); a cancelled
\* outcome is only ever recorded by the check that starts an iteration;
\* and when the item was the last one the loop's else branch runs and the
\* playlist is created although the signal is set.
C12_Step ==
    /\ (cancel_event # "set" /\ cancel_event' = "set") =>
          /\ UNCHANGED <<pc, callArgs, plNo, locals, results, missing_movies,
                         missingFile, ret, progress, catalogHist,
                         missing_src>>
    /\ (pc = "match" /\ cancel_event = "set" /\ pc' # "match") =>
          /\ pc' \in {"check", "raised"}
          /\ results' = results
          /\ nFind'[plNo] = nFind[plNo] + 1
          /\ pc' = "check" =>
                /\ idx' = idx + 1
                /\ Len(found') = Len(found) + 1
                /\ progress' = Append(progress, [pl |-> plNo, i |-> idx + 1,
                                                 n |-> Len(items)])
                /\ Len(matched') + Len(missing_movies') =
                       Len(matched) + Len(missing_movies) + 1
    /\ (pc = "check" /\ idx = Len(items) /\ pc' # "check") =>
          /\ pc' = "create"
          /\ results' = results
    /\ (pc = "create" /\ pc' # "create") =>
          /\ createCount'[plNo] = createCount[plNo] + 1
          /\ lastCreate'.items = matched
          /\ results'[Len(results')].kind \in {"added", "error"}
    /\ (Len(results') > Len(results)
          /\ results'[Len(results')].kind = "cancelled") =>
          /\ pc = "check"
          /\ idx < Len(items)
          /\ cancel_event = "set"

C12_CancelAtBoundaryOnly == [][C12_Step]_vars

\* the signal was set while the last item of the playlist is being matched
W12_SetDuringLastItem ==
    /\ pc = "match"
    /\ cancel_event = "set"
    /\ idx = 1
    /\ Len(items) = 2

\* the playlists of the document that the call reached and did not skip
Processed == (1..plNo) \ skipped

\* C13: when import_from_file has returned, its summary is the recorded
\* lines; there is exactly one line for each processed playlist and none
\* for any other, the lines are in document order, and each is of the form
\* added matched/total, cancelled at k/total or ERROR, under a target name
\* of the rename map.
C13_OneLinePerPlaylist ==
    pc \in {"returned", "shown"} =>
        /\ ret = results
        /\ \A p \in Processed : Cardinality(LinesOf(p)) = 1
        /\ \A i \in DOMAIN ret : ret[i].pl \in Processed
        /\ \A i, j \in DOMAIN ret : i < j => ret[i].pl < ret[j].pl
        /\ \A i \in DOMAIN ret :
              /\ ret[i].kind \in {"added", "cancelled", "error"}
              /\ \E n \in DOMAIN rename_map : ret[i].name = rename_map[n]
              /\ ret[i].kind = "added" => ret[i].a <= ret[i].b
              /\ ret[i].kind = "cancelled" => ret[i].a < ret[i].b

W13_AddedThenCancelled ==
    /\ pc = "returned"
    /\ ret = <<Line(1, "X", "added", 1, 2), Line(2, "X", "cancelled", 0, 1)>>

\* the unmatched items of the current playlist, as missing_src has them
MissesHere == SelectSeq(missing_src, LAMBDA e : e.pl = plNo)

\* C14: the collector holds one record per item whose match attempt
\* returned no entry, in processing order; when the call returns with a
\* non-empty collector the side file exists and holds exactly the
\* collector; the step that returns with an empty collector leaves the
\* side file as it was.
C14_Collector ==
    /\ Len(missing_src) = Len(missing_movies)
    /\ \A i, j \in DOMAIN missing_src :
          i < j => \/ missing_src[i].pl < missing_src[j].pl
                   \/ /\ missing_src[i].pl = missing_src[j].pl
                      /\ missing_src[i].idx < missing_src[j].idx
    /\ (pc \in {"check", "match", "create", "raised"}) =>
          /\ {e.idx + 1 : e \in {MissesHere[k] : k \in DOMAIN MissesHere}} =
                 {k \in DOMAIN found : found[k] = None}
          /\ \A j \in DOMAIN missing_src :
                missing_src[j].pl = plNo =>
                    missing_movies[j] = items[missing_src[j].idx + 1]
    /\ (pc = "returned" /\ missing_movies # <<>>) =>
          missingFile = [exists |-> TRUE, content |-> missing_movies]

C14_Step ==
    (pc = "save" /\ pc' # "save" /\ missing_movies = <<>>) =>
        missingFile' = missingFile

C14_MissingFile == [](C14_Collector) /\ [][C14_Step]_vars

\* two playlists imported, one item of the second was not found
W14_OneMissOfTwoPlaylists ==
    /\ pc = "returned"
    /\ Len(ret) = 2
    /\ ret[1].kind = "added"
    /\ ret[1].b = 1
    /\ ret[2].kind = "added"
    /\ ret[2].b = 2
    /\ missing_src = <<[pl |-> 2, idx |-> 1]>>
    /\ Len(missingFile.content) = 1

\* C15: nothing is done for a playlist the loop has not reached; every
\* playlist before the current one that was not skipped has its outcome;
\* the items of the current playlist are matched one after the other in
\* their order; and the playlist is created only after all of its items
\* were matched and before anything is done for the next one.
C15_State ==
    /\ \A p \in 1..MaxPlaylists :
          p > plNo => /\ nFind[p] = 0
                      /\ createCount[p] = 0
                      /\ p \notin touched
                      /\ ProgressCount(p) = 0
                      /\ LinesOf(p) = {}
    /\ \A p \in 1..MaxPlaylists :
          (p < plNo /\ p \notin skipped) => Cardinality(LinesOf(p)) = 1
    /\ (pc \in {"check", "match", "create"}) =>
          /\ Len(found) = idx
          /\ nFind[plNo] = idx
          /\ Len(matched) + Cardinality({k \in DOMAIN found :
                                            found[k] = None}) = idx
          /\ pc = "match" => idx < Len(items)
          /\ pc = "create" => idx = Len(items)
          /\ LinesOf(plNo) = {}
          /\ createCount[plNo] = 0

C15_Step ==
    /\ \A p \in 1..MaxPlaylists :
          nFind'[p] # nFind[p] =>
              /\ p = plNo /\ plNo' = plNo
              /\ pc = "match"
              /\ nFind'[p] = idx + 1
              /\ createCount[p] = 0
    /\ \A p \in 1..MaxPlaylists :
          createCount'[p] # createCount[p] =>
              /\ p = plNo /\ plNo' = plNo
              /\ pc = "create"
              /\ nFind[p] = Len(items)
              /\ lastCreate'.items = matched
              /\ Cardinality(LinesOf(p)) = 0
    /\ plNo' # plNo =>
          /\ plNo' = plNo + 1
          /\ pc \in {"for_pl", "started"}

C15_Sequential == [](C15_State) /\ [][C15_Step]_vars

W15_SecondPlaylistMidItem ==
    /\ pc = "match"
    /\ plNo = 2
    /\ idx = 1
    /\ nFind = <<1, 1>>
    /\ createCount = <<1, 0>>

\* the calls find_media_in_plex has made when it reaches the searches
FmPrefix == (IF FmItem.key # None THEN <<"fetchItem">> ELSE <<>>)
            \o <<"section">>
\* the item was not resolved by its stable identifier and the Movies
\* section was obtained
FmSearching ==
    /\ FmDone
    /\ FmItem.key = None \/ fm_resp.fetch.raise
    /\ fm_resp.section
\* positions of the external-id search's hits whose GUID holds the id
GuidHits == {k \in DOMAIN fm_resp.s_imdb.hits :
                IsSubstring(FmItem.imdb, Guid(fm_resp.s_imdb.hits[k]))}

\* C16: for an item with an external id that the stable identifier did not
\* resolve, the first search is by title and year when the item has a
\* year and by title otherwise; when a hit's GUID contains the external id
\* the result is the first such hit in result order, and no further call
\* is made.
C16_FirstGuidMatch ==
    (FmSearching /\ FmItem.imdb # <<>>) =>
        /\ Len(fm_out.calls) > Len(FmPrefix)
        /\ SubSeq(fm_out.calls, 1, Len(FmPrefix) + 1) =
               Append(FmPrefix, IF FmItem.year # None
                                THEN "search_title_year" ELSE "search_title")
        /\ (~fm_resp.s_imdb.raise /\ GuidHits # {}) =>
              /\ ~fm_out.raised
              /\ \E k \in GuidHits :
                    /\ \A j \in GuidHits : k <= j
                    /\ fm_out.media = fm_resp.s_imdb.hits[k]
              /\ Len(fm_out.calls) = Len(FmPrefix) + 1

W16_SecondHitMatches ==
    /\ FmSearching
    /\ FmItem.imdb # <<>>
    /\ FmItem.year # None
    /\ ~fm_resp.s_imdb.raise
    /\ fm_resp.s_imdb.hits = <<2, 1>>
    /\ matched = <<1>>

\* the calls made when the title strategies are reached
FmBase == IF FmItem.imdb # <<>>
          THEN Append(FmPrefix, IF FmItem.year # None
                                THEN "search_title_year" ELSE "search_title")
          ELSE FmPrefix
\* neither the stable identifier nor the external id gave an entry
FmFallback ==
    /\ FmSearching
    /\ FmItem.imdb # <<>> => (~fm_resp.s_imdb.raise /\ GuidHits = {})

\* C17: in that case, an item with a year is searched by title and year
\* and the first hit of a non-empty result is returned with no further
\* call; with an empty result, or for an item without a year, the search
\* is by title alone and returns its first hit, or nothing when empty.
C17_TitleFallbacks ==
    FmFallback =>
        IF FmItem.year # None /\ fm_resp.s_ty.raise
        THEN fm_out = Raised(Append(FmBase, "search_title_year"))
        ELSE IF FmItem.year # None /\ fm_resp.s_ty.hits # <<>>
        THEN fm_out = Ret(fm_resp.s_ty.hits[1],
                          Append(FmBase, "search_title_year"))
        ELSE LET c == Append(IF FmItem.year # None
                             THEN Append(FmBase, "search_title_year")
                             ELSE FmBase, "search_title")
             IN  IF fm_resp.s_t.raise THEN fm_out = Raised(c)
                 ELSE IF fm_resp.s_t.hits # <<>>
                      THEN fm_out = Ret(fm_resp.s_t.hits[1], c)
                      ELSE fm_out = Ret(None, c)

W17_YearEmptyThenTitle ==
    /\ FmFallback
    /\ FmItem.imdb = <<>>
    /\ FmItem.year # None
    /\ fm_resp.s_ty = [raise |-> FALSE, hits |-> <<>>]
    /\ fm_resp.s_t = [raise |-> FALSE, hits |-> <<2, 1>>]
    /\ fm_out.calls = Append(Append(FmPrefix, "search_title_year"),
                             "search_title")
    /\ matched = <<2>>

\* the titles of the exported playlists
ExportedTitles == [i \in DOMAIN playlists |-> playlists[i].title]

C19_UnsupportedExtensionFails ==
    (pc \in {"previewed", "previewed_export"}
        /\ ~EndsWith(Lower(file_path), DotJson)
        /\ ~EndsWith(Lower(file_path), DotCsv)) => names.raised

\* C20: at most one import_from_file invocation is in flight, and while
\* one is in flight neither the Import Selected button nor the Modify
\* button can be pressed, whatever state the refresh callbacks have put
\* the buttons in.
C20_OneImportInFlight ==
    /\ inflight <= 1
    /\ inflight > 0 =>
          /\ ~CanClick("import_selected")
          /\ ~CanClick("modify_selected")
          /\ modifying \/ (grab /\ disabled)

\* an import is in flight, a refresh thread is still running, and the
\* Import Selected button was already put back to NORMAL
W20_ImportBesideRefresh ==
    /\ inflight = 1
    /\ workers.importing = 1
    /\ refreshing.modify = 1
    /\ btn.import_selected
    /\ clicks > 0

\* C21: a CSV import handles one playlist, named after the file: at most
\* one createPlaylist call is ever made and at most one line recorded; the
\* call carries the target name rename_map[base name] and the matched
\* rows in row order; and when the call has returned with an added or
\* ERROR line, exactly one createPlaylist call was made.
C21_CsvOnePlaylist ==
    kind = "csv" =>
        /\ plNo <= 1
        /\ Len(results) <= 1
        /\ \A p \in 1..MaxPlaylists : createCount[p] <= (IF p = 1 THEN 1 ELSE 0)
        /\ (lastCreate.pl # 0) =>
              /\ lastCreate.pl = 1
              /\ original \in DOMAIN rename_map
              /\ lastCreate.name = rename_map[original]
              /\ lastCreate.items = SelectSeq(found, IsEntry)
              /\ Len(found) = Len(items)
        /\ (pc \in {"save", "returned", "shown"} /\ 1 \notin skipped) =>
              /\ Len(results) = 1
              /\ results[1].kind \in {"added", "error"} <=> createCount[1] = 1
              /\ results[1].kind = "cancelled" <=> createCount[1] = 0

W21_CsvThreeRows ==
    /\ kind = "csv"
    /\ pc = "save"
    /\ lastCreate = [pl |-> 1, name |-> "X", items |-> <<2, 1>>, ok |-> TRUE]
    /\ found = <<2, None, 1>>
    /\ results = <<Line(1, "X", "added", 2, 3)>>

\* the playlists the loop is done with
Finished == {p \in Processed : p < plNo \/ pc \in {"for_pl", "save"}}

\* C22: every playlist whose name is a key of the map, whether or not an
\* earlier playlist bore the same name, starts with an empty matched list
\* and its own item loop; it gets one outcome line of its own and, unless
\* cancelled, one createPlaylist call of its own, whose items are the
\* entries matched for its own items and nothing else.
C22_State ==
    /\ \A p \in Finished :
          /\ Cardinality(LinesOf(p)) = 1
          /\ \A i \in LinesOf(p) :
                /\ results[i].kind \in {"added", "error"} => createCount[p] = 1
                /\ results[i].kind = "cancelled" => createCount[p] = 0
                /\ results[i].kind = "added" =>
                       /\ nFind[p] = results[i].b
                       /\ ProgressCount(p) = results[i].b
    /\ (pc \in {"check", "match", "create"}) =>
          /\ Len(matched) <= idx
          /\ matched = SelectSeq(found, IsEntry)
    /\ (lastCreate.pl # 0 /\ lastCreate.pl = plNo) =>
          /\ lastCreate.items = SelectSeq(found, IsEntry)
          /\ Len(lastCreate.items) <= Len(items)

C22_Step ==
    (plNo' = plNo + 1 /\ pc' = "check") =>
        /\ original' \in DOMAIN rename_map
        /\ matched' = <<>>
        /\ found' = <<>>
        /\ idx' = 0
        /\ results' = results
        /\ createCount' = createCount
        /\ missing_movies' = missing_movies

C22_DuplicatesIndependent == [](C22_State) /\ [][C22_Step]_vars

\* two playlists of the same name, the first with one match: the second
\* is created with its own single match
W22_SameNameTwice ==
    /\ plNo = 2
    /\ pc = "for_pl"
    /\ skipped = {}
    /\ original = "A"
    /\ results = <<Line(1, "X", "added", 1, 1), Line(2, "X", "added", 1, 2)>>
    /\ lastCreate = [pl |-> 2, name |-> "X", items |-> <<2>>, ok |-> TRUE]

\* C23 (as claimed): when on_close has destroyed the window, no background
\* thread the application started is still running.
C23_CloseJoinsThreads ==
    destroyed =>
        /\ refreshing.export = 0
        /\ refreshing.modify = 0
        /\ workers.importing + workers.returned = 0

\* C24 (as claimed): when the signal is set and the worker stands at the
\* head of the item loop of a playlist of which nothing was processed yet,
\* it does not go on to create the playlist, however many items the
\* playlist has.
C24_Step ==
    (pc = "check" /\ idx = 0 /\ cancel_event = "set" /\ pc' # "check") =>
        /\ pc' # "create"
        /\ Len(results') = Len(results) + 1
        /\ results'[Len(results')].kind = "cancelled"

C24_NoCreateAfterCancel == [][C24_Step]_vars

\* C25: at every iteration boundary of a playlist, the entries of its
\* matched list plus its items in the unmatched collector are the items
\* processed so far, and that number is the first argument of the last
\* progress call; an added line m/t carries the size of the list passed
\* to createPlaylist and the playlist's item count, with 0 <= m <= t.
C25_Accounting ==
    /\ pc = "check" =>
          /\ Len(matched) + Len(MissesHere) = idx
          /\ idx <= Len(items)
          /\ progress_callback =>
                IF idx = 0 THEN ProgressOf(plNo) = <<>>
                ELSE progress[Len(progress)] =
                         [pl |-> plNo, i |-> idx, n |-> Len(items)]
    /\ (lastCreate.pl # 0 /\ lastCreate.pl = plNo /\ lastCreate.ok) =>
          \A i \in LinesOf(plNo) :
              /\ results[i].kind = "added"
              /\ results[i].a = Len(lastCreate.items)
              /\ results[i].b = Len(items)
              /\ results[i].a + Len(MissesHere) = results[i].b
    /\ \A i \in DOMAIN results :
          results[i].kind = "added" =>
              /\ 0 <= results[i].a
              /\ results[i].a <= results[i].b

W25_OneMatchedOneMissed ==
    /\ pc = "check"
    /\ idx = 2
    /\ Len(items) = 3
    /\ Len(matched) = 1
    /\ Len(MissesHere) = 1
    /\ progress[Len(progress)].i = 2

\* C26 (as claimed): when modify_playlist has shown its success message,
\* the re-import has created the playlist under the selected name with
\* all of the original's items.
C26_SuccessMeansRecreated ==
    pc = "modified" =>
        ret = <<Line(1, Selected, "added", Len(playlists[1].items),
                     Len(playlists[1].items))>>

\* find_media_in_plex was called at most once per item of the playlist
\* and createPlaylist at most once per playlist
C27_AtMostOnce ==
    /\ \A p \in 1..MaxPlaylists : createCount[p] <= 1
    /\ \A p \in 1..MaxPlaylists : nFind[p] <= MaxDocItems
    /\ pc \in {"check", "match", "create"} => nFind[plNo] <= Len(items)
    /\ pc = "check" => nFind[plNo] = idx
    /\ \A p \in skipped : nFind[p] = 0 /\ createCount[p] = 0

\* import_from_file is at its return and every selected playlist has an
\* outcome line
C27_Returned ==
    /\ pc = "returned"
    /\ \A p \in Processed : LinesOf(p) # {}

\* C27 (as claimed): every call of import_from_file makes at most one
\* find_media_in_plex call per item and one createPlaylist call per
\* selected playlist, and eventually reaches its return with an outcome
\* for every selected playlist.
C27_Terminates ==
    /\ []C27_AtMostOnce
    /\ (pc = "started") ~> C27_Returned

====
